---- MODULE Spec2Model ----
(***************************************************************************)
(* The Acutis stop hook (scripts/stop-hook.py): one invocation of main(),  *)
(* from the read of standard input to the exit of the process, with the    *)
(* walk of the transcript in between.                                      *)
(*                                                                         *)
(* JSON values are tagged records [t, v]: t is the Python type of the      *)
(* decoded value ("str", "num", "bool", "null", "list", "dict"); a dict is *)
(* the sequence of its <<key, value>> pairs in document order.  Strings    *)
(* are TLA+ strings, read character by character with SubSeq.              *)
(***************************************************************************)
EXTENDS Integers, Sequences, FiniteSets, TLC

VARIABLES stdin, fs_file, transcript, invocations, earlier,
          pc, hook_input, env,
          cursor, idx, last_security_write_idx, last_scan_allow_idx,
          result, stdout, exit_code, error

vars == <<stdin, fs_file, transcript, invocations, earlier, pc, hook_input, env, cursor, idx,
          last_security_write_idx, last_scan_allow_idx, result, stdout,
          exit_code, error>>

(***************************************************************************)
(* JSON values and the Python operations the hook applies to them.         *)
(***************************************************************************)
JStr(s) == [t |-> "str", v |-> s]
JNum(n) == [t |-> "num", v |-> n]
JBool(b) == [t |-> "bool", v |-> b]
JNull == [t |-> "null", v |-> "None"]
JList(items) == [t |-> "list", v |-> items]
JDict(pairs) == [t |-> "dict", v |-> pairs]

IsDict(x) == x.t = "dict"
IsList(x) == x.t = "list"
IsStr(x) == x.t = "str"

\* key in d
HasKey(d, k) == \E i \in 1..Len(d.v) : d.v[i][1] = k

\* d.get(k, default)
Get(d, k, default) ==
    IF HasKey(d, k)
    THEN d.v[CHOOSE i \in 1..Len(d.v) : d.v[i][1] = k][2]
    ELSE default

\* bool(x)
Truthy(x) ==
    CASE x.t = "str" -> x.v # ""
      [] x.t = "num" -> x.v # 0
      [] x.t = "bool" -> x.v
      [] x.t = "null" -> FALSE
      [] x.t = "list" -> Len(x.v) > 0
      [] x.t = "dict" -> Len(x.v) > 0

\* hash(x) succeeds: what `x in <set>` needs of x
Hashable(x) == x.t \notin {"list", "dict"}

\* needle in haystack, for str
Contains(haystack, needle) ==
    \E i \in 1..(Len(haystack) - Len(needle) + 1) :
        SubSeq(haystack, i, i + Len(needle) - 1) = needle

RECURSIVE PyRepr(_)
RECURSIVE PyReprItems(_)
RECURSIVE PyReprPairs(_)
\* repr(x)
PyRepr(x) ==
    CASE x.t = "str" -> "'" \o x.v \o "'"
      [] x.t = "num" -> ToString(x.v)
      [] x.t = "bool" -> IF x.v THEN "True" ELSE "False"
      [] x.t = "null" -> "None"
      [] x.t = "list" -> "[" \o PyReprItems(x.v) \o "]"
      [] x.t = "dict" -> "{" \o PyReprPairs(x.v) \o "}"

PyReprItems(items) ==
    IF items = <<>> THEN ""
    ELSE IF Len(items) = 1 THEN PyRepr(items[1])
    ELSE PyRepr(items[1]) \o ", " \o PyReprItems(Tail(items))

PyReprPairs(pairs) ==
    IF pairs = <<>> THEN ""
    ELSE LET one == "'" \o pairs[1][1] \o "': " \o PyRepr(pairs[1][2])
         IN IF Len(pairs) = 1 THEN one
            ELSE one \o ", " \o PyReprPairs(Tail(pairs))

\* str(x)
PyStr(x) == IF x.t = "str" THEN x.v ELSE PyRepr(x)

(***************************************************************************)
(* Constants of the hook.                                                  *)
(***************************************************************************)
SECURITY_EXTENSIONS ==
    {".py", ".js", ".jsx", ".ts", ".tsx", ".php", ".html", ".htm", ".mjs", ".cjs"}

SKIP_PATTERNS ==
    {"node_modules", "__pycache__", ".git", "venv", ".venv",
     "package-lock.json", "yarn.lock", "poetry.lock"}

WRITE_TOOLS == {"Write", "Edit", "write", "edit", "editFiles", "createFile"}

SCAN_TOOL_KEYWORD == "scan_code"

\* the ceiling of _analyze_entry's _depth
MaxDepth == 10

\* the ceiling of loop_count in main's guard
LoopCeiling == 3

MESSAGE ==
    "Security-relevant code was written but not yet verified. Call mcp__acutis__scan_code with the code and a PCST contract. Fix any BLOCK results before completing."

(***************************************************************************)
(* pathlib: the parts and the suffix of a PosixPath, and str.lower.        *)
(***************************************************************************)
UpperCase == "ABCDEFGHIJKLMNOPQRSTUVWXYZ"
LowerCase == "abcdefghijklmnopqrstuvwxyz"

LowerChar(c) ==
    IF \E i \in 1..Len(UpperCase) : SubSeq(UpperCase, i, i) = c
    THEN LET i == CHOOSE j \in 1..Len(UpperCase) : SubSeq(UpperCase, j, j) = c
         IN SubSeq(LowerCase, i, i)
    ELSE c

RECURSIVE Lower(_)
\* s.lower()
Lower(s) ==
    IF Len(s) = 0 THEN ""
    ELSE LowerChar(SubSeq(s, 1, 1)) \o Lower(SubSeq(s, 2, Len(s)))

RECURSIVE SplitSlash(_)
\* s.split("/")
SplitSlash(s) ==
    IF ~Contains(s, "/") THEN <<s>>
    ELSE LET i == CHOOSE j \in 1..Len(s) :
                      /\ SubSeq(s, j, j) = "/"
                      /\ \A k \in 1..(j - 1) : SubSeq(s, k, k) # "/"
         IN <<SubSeq(s, 1, i - 1)>> \o SplitSlash(SubSeq(s, i + 1, Len(s)))

\* the root of a POSIX path: "/", "//" (exactly two leading slashes) or none
PathRoot(s) ==
    IF Len(s) >= 1 /\ SubSeq(s, 1, 1) = "/"
    THEN IF Len(s) >= 2 /\ SubSeq(s, 2, 2) = "/"
              /\ ~(Len(s) >= 3 /\ SubSeq(s, 3, 3) = "/")
         THEN "//"
         ELSE "/"
    ELSE ""

\* the components of the path: "" and "." are dropped
PathComponents(s) ==
    SelectSeq(SplitSlash(s), LAMBDA c : c # "" /\ c # ".")

\* Path(s).parts
PathParts(s) ==
    (IF PathRoot(s) = "" THEN <<>> ELSE <<PathRoot(s)>>) \o PathComponents(s)

\* Path(s).name
PathName(s) ==
    LET cs == PathComponents(s) IN IF cs = <<>> THEN "" ELSE cs[Len(cs)]

\* Path(s).suffix: from the last dot of the name, unless the name begins or
\* ends with that dot
PathSuffix(s) ==
    LET name == PathName(s)
        dots == {i \in 1..Len(name) : SubSeq(name, i, i) = "."}
    IN IF dots = {} THEN ""
       ELSE LET i == CHOOSE d \in dots : \A e \in dots : e <= d
            IN IF 1 < i /\ i < Len(name) THEN SubSeq(name, i, Len(name)) ELSE ""

\* is_security_relevant comparing the suffix as written, without lower()
is_security_relevant_cased(file_path) ==
    IF PathSuffix(file_path) \notin SECURITY_EXTENSIONS THEN FALSE
    ELSE IF \E i \in 1..Len(PathParts(file_path)) :
                PathParts(file_path)[i] \in SKIP_PATTERNS
    THEN FALSE
    ELSE TRUE

is_security_relevant(file_path) ==
    IF Lower(PathSuffix(file_path)) \notin SECURITY_EXTENSIONS THEN FALSE
    ELSE IF \E i \in 1..Len(PathParts(file_path)) :
                PathParts(file_path)[i] \in SKIP_PATTERNS
    THEN FALSE
    ELSE TRUE

(***************************************************************************)
(* _analyze_entry.  Its result is the pair (has_write, has_allow), or the  *)
(* exception it raises: err is "none" when it returns.                     *)
(***************************************************************************)
Ret(w, a) == [w |-> w, a |-> a, err |-> "none"]
Raise(e) == [w |-> FALSE, a |-> FALSE, err |-> e]

\* x in WRITE_TOOLS, for a hashable x
InWriteTools(x) == x.t = "str" /\ x.v \in WRITE_TOOLS

\* fp = tool_input.get("file_path", tool_input.get("filePath", ""))
\* if fp and is_security_relevant(fp): has_write = True
WritePath(tool_input) ==
    IF ~IsDict(tool_input) THEN Raise("AttributeError")
    ELSE LET fp == Get(tool_input, "file_path", Get(tool_input, "filePath", JStr("")))
         IN IF ~Truthy(fp) THEN Ret(FALSE, FALSE)
            ELSE IF ~IsStr(fp) THEN Raise("TypeError")
            ELSE Ret(is_security_relevant(fp.v), FALSE)

\* if entry.get("type") == "tool_use" and entry.get("name") in WRITE_TOOLS
ToolUseWrite(entry) ==
    IF Get(entry, "type", JNull) # JStr("tool_use") THEN Ret(FALSE, FALSE)
    ELSE IF ~Hashable(Get(entry, "name", JNull)) THEN Raise("TypeError")
    ELSE IF ~InWriteTools(Get(entry, "name", JNull)) THEN Ret(FALSE, FALSE)
    ELSE WritePath(Get(entry, "input", Get(entry, "tool_input", JDict(<<>>))))

\* if entry.get("tool_name") in WRITE_TOOLS
ToolNameWrite(entry) ==
    IF ~Hashable(Get(entry, "tool_name", JNull)) THEN Raise("TypeError")
    ELSE IF ~InWriteTools(Get(entry, "tool_name", JNull)) THEN Ret(FALSE, FALSE)
    ELSE WritePath(Get(entry, "tool_input", JDict(<<>>)))

\* ScanResultAllow without the test for "ALLOW": any scan result passes
ScanResultAny(entry) ==
    /\ Get(entry, "type", JNull) = JStr("tool_result")
    /\ Contains(PyStr(Get(entry, "name", JStr(""))), SCAN_TOOL_KEYWORD)

\* is_scan_result, and "ALLOW" in its content
ScanResultAllow(entry) ==
    /\ Get(entry, "type", JNull) = JStr("tool_result")
    /\ Contains(PyStr(Get(entry, "name", JStr(""))), SCAN_TOOL_KEYWORD)
    /\ LET content == Get(entry, "content", JStr(""))
       IN IF IsStr(content) THEN Contains(content.v, "ALLOW")
          ELSE IF IsList(content)
          THEN \E i \in 1..Len(content.v) :
                   /\ IsDict(content.v[i])
                   /\ Contains(PyStr(Get(content.v[i], "text", JStr(""))), "ALLOW")
          ELSE FALSE

\* ScanToolAllow matching the tool name exactly instead of as a substring
ScanToolAllowExact(entry) ==
    /\ PyStr(Get(entry, "tool_name", JStr(""))) = SCAN_TOOL_KEYWORD
    /\ LET res == Get(entry, "result", Get(entry, "tool_result", JStr("")))
       IN IF IsStr(res) THEN Contains(res.v, "ALLOW")
          ELSE IF IsDict(res)
          THEN Contains(PyStr(Get(res, "decision", JStr(""))), "ALLOW")
          ELSE FALSE

\* scan_code in tool_name, and "ALLOW" in its result
ScanToolAllow(entry) ==
    /\ Contains(PyStr(Get(entry, "tool_name", JStr(""))), SCAN_TOOL_KEYWORD)
    /\ LET res == Get(entry, "result", Get(entry, "tool_result", JStr("")))
       IN IF IsStr(res) THEN Contains(res.v, "ALLOW")
          ELSE IF IsDict(res)
          THEN Contains(PyStr(Get(res, "decision", JStr(""))), "ALLOW")
          ELSE FALSE

\* DepthExceeded with the ceiling one level too deep
DepthExceededOneLate(_depth) == _depth > MaxDepth + 1

\* if _depth > 10
DepthExceeded(_depth) == _depth > MaxDepth

\* NestKeys without the message objects
NestKeysNoMessage == <<"content", "messages">>

\* the keys _analyze_entry descends through
NestKeys == <<"content", "messages", "message">>

\* the values of those keys that are a dict or a list, in the order of the loop
NestedValues(entry) ==
    LET vals == [i \in 1..Len(NestKeys) |-> Get(entry, NestKeys[i], JNull)]
    IN SelectSeq(vals, LAMBDA val : IsDict(val) \/ IsList(val))

RECURSIVE _analyze_entry(_, _)
RECURSIVE AnalyzeEach(_, _)

\* for item in items: w, a = _analyze_entry(item, depth); or-ed together
AnalyzeEach(items, depth) ==
    IF items = <<>> THEN Ret(FALSE, FALSE)
    ELSE LET first == _analyze_entry(Head(items), depth)
         IN IF first.err # "none" THEN first
            ELSE LET rest == AnalyzeEach(Tail(items), depth)
                 IN IF rest.err # "none" THEN rest
                    ELSE Ret(first.w \/ rest.w, first.a \/ rest.a)

_analyze_entry(entry, _depth) ==
    IF DepthExceeded(_depth) THEN Ret(FALSE, FALSE)
    ELSE IF IsDict(entry)
    THEN LET w1 == ToolUseWrite(entry)
             w2 == ToolNameWrite(entry)
             sub == AnalyzeEach(NestedValues(entry), _depth + 1)
         IN IF w1.err # "none" THEN w1
            ELSE IF w2.err # "none" THEN w2
            ELSE IF sub.err # "none" THEN sub
            ELSE Ret(w1.w \/ w2.w \/ sub.w,
                     ScanResultAllow(entry) \/ ScanToolAllow(entry) \/ sub.a)
    ELSE IF IsList(entry) THEN AnalyzeEach(entry.v, _depth + 1)
    ELSE Ret(FALSE, FALSE)

(***************************************************************************)
(* The transcript: a file of lines.  A line is blank, or text json.loads   *)
(* rejects ("bad"), or the text of a JSON value, and then val is the value *)
(* json.loads returns for it.                                              *)
(***************************************************************************)
BlankLine == [kind |-> "blank", val |-> JNull]
BadLine == [kind |-> "bad", val |-> JNull]
JsonLine(val) == [kind |-> "json", val |-> val]

\* the locals of analyze_transcript: the two positions, idx, and the exception
\* that left the loop uncaught ("none" while there is none)
WalkState(lw, la, i, err) ==
    [last_security_write_idx |-> lw, last_scan_allow_idx |-> la, idx |-> i, err |-> err]

\* lines 91-93
WalkStart == WalkState(-1, -1, 0, "none")

\* ProcessLine giving a skipped line a position
ProcessLineCountsSkipped(st, line) ==
    IF line.kind # "json"
    THEN WalkState(st.last_security_write_idx, st.last_scan_allow_idx, st.idx + 1, "none")
    ELSE LET r == _analyze_entry(line.val, 0)
         IN IF r.err # "none"
            THEN WalkState(st.last_security_write_idx, st.last_scan_allow_idx, st.idx, r.err)
            ELSE WalkState(IF r.w THEN st.idx ELSE st.last_security_write_idx,
                           IF r.a THEN st.idx ELSE st.last_scan_allow_idx,
                           st.idx + 1,
                           "none")

\* ProcessLine recording a write at the position after the record's
ProcessLineAhead(st, line) ==
    IF line.kind # "json" THEN st
    ELSE LET r == _analyze_entry(line.val, 0)
         IN IF r.err # "none"
            THEN WalkState(st.last_security_write_idx, st.last_scan_allow_idx, st.idx, r.err)
            ELSE WalkState(IF r.w THEN st.idx + 1 ELSE st.last_security_write_idx,
                           IF r.a THEN st.idx ELSE st.last_scan_allow_idx,
                           st.idx + 1,
                           "none")

\* ProcessLine keeping the position of the first write instead of the last
ProcessLineFirstWrite(st, line) ==
    IF line.kind # "json" THEN st
    ELSE LET r == _analyze_entry(line.val, 0)
         IN IF r.err # "none"
            THEN WalkState(st.last_security_write_idx, st.last_scan_allow_idx, st.idx, r.err)
            ELSE WalkState(IF r.w /\ st.last_security_write_idx < 0
                           THEN st.idx ELSE st.last_security_write_idx,
                           IF r.a THEN st.idx ELSE st.last_scan_allow_idx,
                           st.idx + 1,
                           "none")

\* the body of `for line in f`, lines 98-113
ProcessLine(st, line) ==
    IF line.kind # "json" THEN st
    ELSE LET r == _analyze_entry(line.val, 0)
         IN IF r.err # "none"
            THEN WalkState(st.last_security_write_idx, st.last_scan_allow_idx, st.idx, r.err)
            ELSE WalkState(IF r.w THEN st.idx ELSE st.last_security_write_idx,
                           IF r.a THEN st.idx ELSE st.last_scan_allow_idx,
                           st.idx + 1,
                           "none")

\* WalkResult comparing the positions with >= instead of >
WalkResultNotStrict(st) ==
    [returned |-> TRUE,
     has_unverified_writes |-> st.last_security_write_idx >= st.last_scan_allow_idx,
     has_security_writes |-> st.last_security_write_idx >= 0]

\* lines 117-120: the pair analyze_transcript returns
WalkResult(st) ==
    [returned |-> TRUE,
     has_unverified_writes |-> st.last_security_write_idx > st.last_scan_allow_idx,
     has_security_writes |-> st.last_security_write_idx >= 0]

NoResult ==
    [returned |-> FALSE, has_unverified_writes |-> FALSE, has_security_writes |-> FALSE]

RECURSIVE WalkLines(_, _)
\* the loop of lines 97-113 over the lines of a file, from the state st; it
\* stops at the first exception _analyze_entry raises
WalkLines(st, lines) ==
    IF lines = <<>> \/ st.err # "none" THEN st
    ELSE WalkLines(ProcessLine(st, Head(lines)), Tail(lines))

\* analyze_transcript on a readable file of these lines: the pair it returns,
\* NoResult when it raises
Walk(lines) ==
    LET st == WalkLines(WalkStart, lines)
    IN IF st.err = "none" THEN WalkResult(st) ELSE NoResult

(***************************************************************************)
(* main(), one step at a time.  pc is the place in main: "read_input",     *)
(* "detect", "guard", "analyze" (the call of analyze_transcript), "walk"   *)
(* (its loop), "decide", "done" (the process has exited).                  *)
(***************************************************************************)
\* sys.exit(0) with nothing more written
Exit0 == /\ pc' = "done"
         /\ exit_code' = 0

\* an exception no handler catches: the traceback, and exit status 1
Uncaught(e) == /\ pc' = "done"
               /\ exit_code' = 1
               /\ error' = e

\* read_hook_input
read_hook_input ==
    /\ pc = "read_input"
    /\ hook_input' = IF stdin.kind = "json" THEN stdin.val ELSE JDict(<<>>)
    /\ pc' = "detect"
    /\ UNCHANGED <<stdin, fs_file, transcript, invocations, earlier, env, cursor, idx,
                   last_security_write_idx, last_scan_allow_idx, result, stdout,
                   exit_code, error>>

\* key in x, for the x json.loads can return; "TypeError" where `in` raises
KeyIn(k, x) ==
    CASE x.t = "dict" -> IF HasKey(x, k) THEN "yes" ELSE "no"
      [] x.t = "list" -> IF \E i \in 1..Len(x.v) : x.v[i] = JStr(k) THEN "yes" ELSE "no"
      [] x.t = "str" -> IF Contains(x.v, k) THEN "yes" ELSE "no"
      [] OTHER -> "TypeError"

\* detect_environment, as called at line 193
detect_environment ==
    /\ pc = "detect"
    /\ LET a == KeyIn("hook_event_name", hook_input)
           b == KeyIn("cursor_version", hook_input)
       IN IF a = "TypeError" \/ (a = "no" /\ b = "TypeError")
          THEN Uncaught("TypeError") /\ UNCHANGED env
          ELSE /\ env' = IF a = "yes" \/ b = "yes" THEN "cursor" ELSE "claude"
               /\ pc' = "guard"
               /\ UNCHANGED <<exit_code, error>>
    /\ UNCHANGED <<stdin, fs_file, transcript, invocations, earlier, hook_input, cursor, idx,
                   last_security_write_idx, last_scan_allow_idx, result, stdout>>

\* AtCeiling with > for >=
AtCeilingStrict(x) ==
    CASE x.t = "num" -> IF x.v > LoopCeiling THEN "yes" ELSE "no"
      [] x.t = "bool" -> "no"
      [] OTHER -> "TypeError"

\* x >= 3 for the loop counter: "TypeError" where the comparison raises
AtCeiling(x) ==
    CASE x.t = "num" -> IF x.v >= LoopCeiling THEN "yes" ELSE "no"
      [] x.t = "bool" -> "no"
      [] OTHER -> "TypeError"

\* the guard of main fires: lines 198-201
GuardFires(input) ==
    /\ IsDict(input)
    /\ \/ Truthy(Get(input, "stop_hook_active", JBool(FALSE)))
       \/ AtCeiling(Get(input, "loop_count", JNum(0))) = "yes"

\* lines 198-201
guard ==
    /\ pc = "guard"
    /\ IF ~IsDict(hook_input) THEN Uncaught("AttributeError")
       ELSE IF GuardFires(hook_input) THEN Exit0 /\ UNCHANGED error
       ELSE IF AtCeiling(Get(hook_input, "loop_count", JNum(0))) = "TypeError"
       THEN Uncaught("TypeError")
       ELSE pc' = "analyze" /\ UNCHANGED <<exit_code, error>>
    /\ UNCHANGED <<stdin, fs_file, transcript, invocations, earlier, hook_input, env, cursor, idx,
                   last_security_write_idx, last_scan_allow_idx, result, stdout>>

\* Handled with no except clause around the loop
HandledNever(e) == FALSE

\* line 114: except (IOError, PermissionError); IOError is OSError, the class
\* of every failure of open() and of the reads of the file
Handled(e) == e \in {"OSError", "PermissionError"}

\* line 88: not transcript_path or not os.path.isfile(transcript_path)
NoTranscriptFile(transcript_path, file) == ~Truthy(transcript_path) \/ file = "absent"

\* lines 203-204 and 88-96: the call of analyze_transcript, up to the loop
analyze_transcript ==
    /\ pc = "analyze"
    /\ LET transcript_path == Get(hook_input, "transcript_path", JStr(""))
       IN IF NoTranscriptFile(transcript_path, fs_file)
          THEN /\ result' = [returned |-> TRUE, has_unverified_writes |-> FALSE,
                             has_security_writes |-> FALSE]
               /\ pc' = "decide"
               /\ UNCHANGED <<cursor, idx, last_security_write_idx, last_scan_allow_idx>>
               /\ UNCHANGED <<exit_code, error>>
          ELSE /\ last_security_write_idx' = WalkStart.last_security_write_idx
               /\ last_scan_allow_idx' = WalkStart.last_scan_allow_idx
               /\ idx' = WalkStart.idx
               /\ cursor' = 0
               /\ IF fs_file # "unreadable"
                  THEN /\ pc' = "walk"
                       /\ UNCHANGED <<result, exit_code, error>>
                  ELSE IF Handled("PermissionError")
                  THEN /\ result' = WalkResult(WalkStart)
                       /\ pc' = "decide"
                       /\ UNCHANGED <<exit_code, error>>
                  ELSE /\ Uncaught("PermissionError")
                       /\ UNCHANGED result
    /\ UNCHANGED <<stdin, fs_file, transcript, invocations, earlier, hook_input, env, stdout>>

\* one turn of `for line in f`
walk_line ==
    /\ pc = "walk"
    /\ cursor < Len(transcript)
    /\ LET st == ProcessLine(WalkState(last_security_write_idx, last_scan_allow_idx,
                                       idx, "none"),
                             transcript[cursor + 1])
       IN IF st.err # "none"
          THEN /\ Uncaught(st.err)
               /\ UNCHANGED <<cursor, idx, last_security_write_idx, last_scan_allow_idx>>
          ELSE /\ last_security_write_idx' = st.last_security_write_idx
               /\ last_scan_allow_idx' = st.last_scan_allow_idx
               /\ idx' = st.idx
               /\ cursor' = cursor + 1
               /\ UNCHANGED <<pc, exit_code, error>>
    /\ UNCHANGED <<stdin, fs_file, transcript, invocations, earlier, hook_input, env, result, stdout>>

\* OnReadError losing what the walk had accumulated
OnReadErrorReset(st) == WalkStart

\* lines 114-115: `pass` leaves the locals as the loop left them
OnReadError(st) == st

\* the read of the next line, or the close of the file, raises OSError: the
\* loop is left through the except clause, for lines 117-120
walk_fail ==
    /\ pc = "walk"
    /\ fs_file = "failing"
    /\ IF Handled("OSError")
       THEN /\ result' = WalkResult(OnReadError(WalkState(last_security_write_idx,
                                                         last_scan_allow_idx, idx, "none")))
            /\ pc' = "decide"
            /\ UNCHANGED <<exit_code, error>>
       ELSE /\ Uncaught("OSError")
            /\ UNCHANGED result
    /\ UNCHANGED <<stdin, fs_file, transcript, invocations, earlier, hook_input, env, cursor, idx,
                   last_security_write_idx, last_scan_allow_idx, stdout>>

\* the end of the file: lines 117-120
walk_end ==
    /\ pc = "walk"
    /\ cursor = Len(transcript)
    /\ result' = WalkResult(WalkState(last_security_write_idx, last_scan_allow_idx,
                                      idx, "none"))
    /\ pc' = "decide"
    /\ UNCHANGED <<stdin, fs_file, transcript, invocations, earlier, hook_input, env, cursor, idx,
                   last_security_write_idx, last_scan_allow_idx, stdout, exit_code, error>>

\* lines 217-222: the response, a JSON object
Response(e) ==
    IF e = "cursor"
    THEN JDict(<< <<"followup_message", JStr(MESSAGE)>> >>)
    ELSE JDict(<< <<"decision", JStr("block")>>, <<"reason", JStr(MESSAGE)>> >>)

\* lines 206-226
decide ==
    /\ pc = "decide"
    /\ IF ~result.has_security_writes \/ ~result.has_unverified_writes
       THEN UNCHANGED stdout
       ELSE stdout' = Append(stdout, Response(env))
    /\ Exit0
    /\ UNCHANGED <<stdin, fs_file, transcript, invocations, earlier, hook_input, env, cursor, idx,
                   last_security_write_idx, last_scan_allow_idx, result, error>>

\* what an invocation leaves to its host, and the pair its walker returned
Outcome == [stdout |-> stdout, exit_code |-> exit_code, error |-> error, result |-> result]

\* NewProcess writing after the output of the process before it
NewProcessSharedOutput(ended) ==
    [pc |-> "read_input", hook_input |-> JNull, env |-> "unset", cursor |-> 0, idx |-> 0,
     last_security_write_idx |-> -1, last_scan_allow_idx |-> -1, result |-> NoResult,
     stdout |-> ended.stdout, exit_code |-> -1, error |-> "none"]

\* lines 229-230: the script run anew is a new process, with nothing of the
\* process that ended before it
NewProcess(ended) ==
    [pc |-> "read_input", hook_input |-> JNull, env |-> "unset", cursor |-> 0, idx |-> 0,
     last_security_write_idx |-> -1, last_scan_allow_idx |-> -1, result |-> NoResult,
     stdout |-> <<>>, exit_code |-> -1, error |-> "none"]

\* the host runs the hook again, with the same standard input and transcript
reinvoke ==
    /\ pc = "done"
    /\ Len(earlier) + 1 < invocations
    /\ earlier' = Append(earlier, Outcome)
    /\ LET new == NewProcess(Outcome)
       IN /\ pc' = new.pc
          /\ hook_input' = new.hook_input
          /\ env' = new.env
          /\ cursor' = new.cursor
          /\ idx' = new.idx
          /\ last_security_write_idx' = new.last_security_write_idx
          /\ last_scan_allow_idx' = new.last_scan_allow_idx
          /\ result' = new.result
          /\ stdout' = new.stdout
          /\ exit_code' = new.exit_code
          /\ error' = new.error
    /\ UNCHANGED <<stdin, fs_file, transcript, invocations>>

Next ==
    \/ read_hook_input
    \/ detect_environment
    \/ guard
    \/ analyze_transcript
    \/ walk_line
    \/ walk_fail
    \/ walk_end
    \/ decide
    \/ reinvoke

(***************************************************************************)
(* The inputs of one invocation: what the host writes to standard input,   *)
(* and the transcript file its transcript_path names.                      *)
(***************************************************************************)
\* the longest transcript, in lines
MaxLines == 3

Absent == [t |-> "absent", v |-> ""]
Field(k, val) == IF val.t = "absent" THEN <<>> ELSE << <<k, val>> >>

TranscriptPath == "/home/dev/.claude/projects/app/session.jsonl"

\* an invocation record with the fields main and detect_environment read
HookInput(transcript_path, stop_hook_active, loop_count, hook_event_name, cursor_version) ==
    JDict(Field("transcript_path", transcript_path)
          \o Field("stop_hook_active", stop_hook_active)
          \o Field("loop_count", loop_count)
          \o Field("hook_event_name", hook_event_name)
          \o Field("cursor_version", cursor_version))

\* the discriminating fields of the two hosts: none, Cursor's event name, Cursor's version
HostFields ==
    {<<Absent, Absent>>, <<JStr("stop"), Absent>>, <<Absent, JStr("1.7.0")>>}

HookInputs ==
    {HookInput(tp, sha, lc, host[1], host[2]) :
        tp \in {Absent, JStr(""), JStr(TranscriptPath)},
        sha \in {Absent, JBool(FALSE), JBool(TRUE)},
        lc \in {Absent, JNum(2), JNum(3)},
        host \in HostFields}

\* standard input: empty, text that is no JSON, a JSON object, JSON that is no object
StdinInputs ==
    {[kind |-> "empty", val |-> JNull], [kind |-> "malformed", val |-> JNull],
     [kind |-> "json", val |-> JList(<<>>)], [kind |-> "json", val |-> JNull]}
    \cup {[kind |-> "json", val |-> input] : input \in HookInputs}

\* the sequences over S of at most n elements
SeqsUpTo(S, n) == UNION {[1..m -> S] : m \in 0..n}

ToolUse(name, tool_input) ==
    JDict(<< <<"type", JStr("tool_use")>>, <<"name", JStr(name)>>, <<"input", tool_input>> >>)
FilePath(path) == JDict(<< <<"file_path", JStr(path)>> >>)
ToolResult(name, content) ==
    JDict(<< <<"type", JStr("tool_result")>>, <<"name", JStr(name)>>, <<"content", content>> >>)

\* records of a transcript: a write of app.py, an edit of README.md, a scan
\* with the verdict ALLOW, a scan with the verdict BLOCK, a write event whose
\* tool_input is a string, an assistant message holding a scan result and a write
WriteApp == ToolUse("Write", FilePath("app.py"))
EditReadme == ToolUse("Edit", FilePath("README.md"))
ScanAllow == ToolResult("mcp__acutis__scan_code", JStr("Decision: ALLOW"))
ScanBlock ==
    JDict(<< <<"tool_name", JStr("mcp__acutis__scan_code")>>,
             <<"result", JDict(<< <<"decision", JStr("BLOCK")>> >>)>> >>)
WriteStringInput ==
    JDict(<< <<"tool_name", JStr("Write")>>, <<"tool_input", JStr("app.py")>> >>)
ScanThenWrite ==
    JDict(<< <<"type", JStr("assistant")>>,
             <<"message", JDict(<< <<"content", JList(<<ScanAllow, WriteApp>>)>> >>)>> >>)

\* the same message with the write before the scan result, and one record
\* that is a write event and a scan result at once
WriteThenScan ==
    JDict(<< <<"type", JStr("assistant")>>,
             <<"message", JDict(<< <<"content", JList(<<WriteApp, ScanAllow>>)>> >>)>> >>)
WriteAndScan ==
    JDict(<< <<"type", JStr("tool_result")>>, <<"name", JStr("scan_code")>>,
             <<"content", JStr("ALLOW")>>, <<"tool_name", JStr("Write")>>,
             <<"tool_input", FilePath("app.py")>> >>)

CoreLines ==
    {BlankLine, BadLine} \cup
    {JsonLine(e) : e \in {WriteApp, EditReadme, ScanAllow, ScanBlock,
                          WriteStringInput, ScanThenWrite}}

\* the state before main runs: nothing read, nothing written, not exited
Start ==
    /\ earlier = <<>>
    /\ pc = "read_input"
    /\ hook_input = JNull
    /\ env = "unset"
    /\ cursor = 0
    /\ idx = 0
    /\ last_security_write_idx = -1
    /\ last_scan_allow_idx = -1
    /\ result = NoResult
    /\ stdout = <<>>
    /\ exit_code = -1
    /\ error = "none"

\* the hook reads the transcript only when standard input names it and it is
\* a readable file; otherwise there are no lines to speak of
NamesTranscript(in) ==
    /\ in.kind = "json"
    /\ IsDict(in.val)
    /\ Get(in.val, "transcript_path", JStr("")) = JStr(TranscriptPath)

\* the states of the file at TranscriptPath: no regular file, a file open()
\* refuses, a file that is read to its end, a file whose reads may fail
FileStates == {"absent", "unreadable", "readable", "failing"}

\* the most invocations the host makes with one standard input and transcript
MaxRuns == 2

\* a file whose reads may fail: a write and its verification
FailingTranscript == <<JsonLine(WriteApp), JsonLine(ScanAllow)>>

\* the host makes one invocation, and runs the hook again where a read may
\* have failed
Init ==
    /\ stdin \in StdinInputs
    /\ fs_file \in FileStates
    /\ transcript \in IF NamesTranscript(stdin) /\ fs_file = "readable"
                      THEN SeqsUpTo(CoreLines, MaxLines)
                      ELSE IF NamesTranscript(stdin) /\ fs_file = "failing"
                      THEN {FailingTranscript}
                      ELSE {<<>>}
    /\ invocations = IF fs_file = "failing" THEN MaxRuns ELSE 1
    /\ Start

Spec == Init /\ [][Next]_vars

(***************************************************************************)
(* SpecRuns: every standard input, every state of the file, transcripts of *)
(* few lines, and the host running the hook more than once on them.        *)
(***************************************************************************)
\* the longest transcript of the repeated invocations, in lines
MaxRunLines == 2

\* the lines of its transcripts: blank, undecodable, a write, its
\* verification, a write event whose tool_input is a string
RunLines ==
    {BlankLine, BadLine, JsonLine(WriteApp), JsonLine(ScanAllow), JsonLine(WriteStringInput)}

InitRuns ==
    /\ stdin \in StdinInputs
    /\ fs_file \in FileStates
    /\ transcript \in IF NamesTranscript(stdin) /\ fs_file \in {"readable", "failing"}
                      THEN SeqsUpTo(RunLines, MaxRunLines)
                      ELSE {<<>>}
    /\ invocations = MaxRuns
    /\ Start

SpecRuns == InitRuns /\ [][Next]_vars

(***************************************************************************)
(* SpecRecords: one invocation of Claude Code's, over transcripts of few   *)
(* records drawn from families of records of many shapes.                  *)
(***************************************************************************)
\* the longest run of records drawn from the families
MaxRecordLines == 1

\* how far beyond the depth ceiling the nested records reach
NestBeyond == 2

\* the invocation record of the specifications that vary the transcript only
PlainInput ==
    [kind |-> "json",
     val |-> HookInput(JStr(TranscriptPath), JBool(FALSE), Absent, Absent, Absent)]

\* the payloads of a scan: verdicts as text, as content blocks, as a mapping
ScanPayloads ==
    {JStr("Decision: ALLOW"), JStr("BLOCK: eval of user input"),
     JList(<<JDict(<< <<"type", JStr("text")>>, <<"text", JStr("ALLOW")>> >>)>>),
     JList(<<JDict(<< <<"type", JStr("text")>>, <<"text", JStr("BLOCK")>> >>)>>),
     JDict(<< <<"decision", JStr("ALLOW")>> >>),
     JDict(<< <<"decision", JStr("BLOCK")>> >>)}

\* records about the scan tool: with or without type "tool_result", the tool
\* named in name or in tool_name, bare or namespaced, the payload in content,
\* result or tool_result
ScanRecords ==
    {JDict(Field("type", type) \o << <<namekey, JStr(toolname)>>, <<paykey, payload>> >>) :
        type \in {Absent, JStr("tool_result")},
        namekey \in {"name", "tool_name"},
        toolname \in {"scan_code", "mcp__acutis__scan_code"},
        paykey \in {"content", "result", "tool_result"},
        payload \in ScanPayloads}

\* the values of a write tool's input
WriteInputs ==
    {FilePath("app.py"),
     JDict(<< <<"filePath", JStr("src/auth.ts")>> >>),
     JDict(<< <<"file_path", JStr("")>>, <<"filePath", JStr("app.py")>> >>),
     JStr("app.py"),
     JDict(<< <<"file_path", JNum(5)>> >>)}

\* records about a write tool: a tool_use block or a tool event, the tool
\* named exactly or by a longer name, the input under input or tool_input
WriteRecords ==
    {JDict(Field("type", type) \o << <<namekey, JStr(toolname)>>, <<inputkey, input>> >>) :
        type \in {Absent, JStr("tool_use")},
        namekey \in {"name", "tool_name"},
        toolname \in {"Write", "createFile", "WriteFile"},
        inputkey \in {"input", "tool_input"},
        input \in WriteInputs}

RECURSIVE Nest(_, _, _)
\* the record x under n levels of containers _analyze_entry descends through
Nest(x, n, kind) ==
    IF n = 0 THEN x
    ELSE Nest(CASE kind = "list" -> JList(<<x>>)
                [] kind = "message" -> JDict(<< <<"message", x>> >>)
                [] kind = "content" -> JDict(<< <<"content", x>> >>),
              n - 1, kind)

NestLeaves == {WriteApp, ScanAllow, WriteStringInput}
NestKinds == {"list", "message", "content"}
NestDepths == (MaxDepth - 1)..(MaxDepth + NestBeyond)

NestedRecords ==
    {Nest(leaf, n, kind) : leaf \in NestLeaves, n \in NestDepths, kind \in NestKinds}

\* other shapes: scalars, a write under a key that is not descended, a write
\* in a list of messages, a name that is a list, a scan result and a write in
\* one message or in one record
OtherRecords ==
    {JStr("ALLOW"), JNum(1), JNull, JList(<<>>),
     EditReadme,
     ToolResult("scan", JStr("ALLOW")),
     JDict(<< <<"other", WriteApp>> >>),
     JDict(<< <<"messages", JList(<<WriteApp>>)>> >>),
     JDict(<< <<"tool_name", JList(<<JStr("Write")>>)>> >>),
     JDict(<< <<"type", JStr("tool_result")>>,
              <<"name", JList(<<JStr("scan_code")>>)>>,
              <<"content", JStr("ALLOW")>> >>),
     JDict(<< <<"tool_name", JStr("scan_code")>>, <<"result", JStr("BLOCK")>>,
              <<"tool_result", JStr("ALLOW")>> >>),
     ScanThenWrite, WriteThenScan, WriteAndScan}

RecordLines ==
    {JsonLine(e) : e \in ScanRecords \cup WriteRecords \cup NestedRecords \cup OtherRecords}

\* runs of records, and each record after a qualifying write
RecordTranscripts ==
    SeqsUpTo(RecordLines, MaxRecordLines)
    \cup {<<JsonLine(WriteApp), line>> : line \in RecordLines}

InitRecords ==
    /\ stdin = PlainInput
    /\ fs_file \in {"readable", "failing"}
    /\ transcript \in IF fs_file = "readable" THEN RecordTranscripts ELSE {FailingTranscript}
    /\ invocations = IF fs_file = "failing" THEN MaxRuns ELSE 1
    /\ Start

SpecRecords == InitRecords /\ [][Next]_vars

(***************************************************************************)
(* SpecPaths: one invocation over transcripts of writes to many paths,     *)
(* with and without a verification success beside them.                    *)
(***************************************************************************)
\* the longest run of writes drawn from the paths
MaxPathLines == 1

PathDirs ==
    {"", "src/", "/repo/src/", "./", "src//lib/", "node_modules/pkg/",
     "src/node_modules/", ".git/hooks/", "venv/lib/", "__pycache__/",
     "Node_Modules/", "my.venv/"}

PathFiles ==
    {"app.py", "APP.PY", "auth.ts", "index.Html", "a.b.mjs", "README.md",
     ".py", "app.py.", "py", "yarn.lock", "view.php5"}

Paths == {dir \o file : dir \in PathDirs, file \in PathFiles}

PathLines == {JsonLine(ToolUse("Write", FilePath(path))) : path \in Paths}

\* runs of writes, alone, before and after a verification success
PathTranscripts ==
    SeqsUpTo(PathLines, MaxPathLines)
    \cup {<<JsonLine(ScanAllow)>> \o t : t \in SeqsUpTo(PathLines, MaxPathLines)}
    \cup {t \o <<JsonLine(ScanAllow)>> : t \in SeqsUpTo(PathLines, MaxPathLines)}

InitPaths ==
    /\ stdin = PlainInput
    /\ fs_file \in {"readable", "failing"}
    /\ transcript \in IF fs_file = "readable" THEN PathTranscripts ELSE {FailingTranscript}
    /\ invocations = IF fs_file = "failing" THEN MaxRuns ELSE 1
    /\ Start

SpecPaths == InitPaths /\ [][Next]_vars

(***************************************************************************)
(* What the claims speak of, read off the inputs and outputs alone.        *)
(***************************************************************************)
\* standard input holds an invocation record: a JSON object
IsInvocation(in) == in.kind = "json" /\ IsDict(in.val)

\* the record signals a forced re-entrant call
ReentrySignalled(rec) ==
    \/ Get(rec, "stop_hook_active", JBool(FALSE)) = JBool(TRUE)
    \/ /\ Get(rec, "loop_count", JNum(0)).t = "num"
       /\ Get(rec, "loop_count", JNum(0)).v >= 3

\* the record carries a field of environment B
EnvironmentB(rec) == HasKey(rec, "hook_event_name") \/ HasKey(rec, "cursor_version")

\* the decoded records of a transcript, in order: position i is element i + 1
Decoded(T) == SelectSeq(T, LAMBDA line : line.kind = "json")

\* the record is classified as holding a qualifying write / verification success
HoldsWrite(rec) == _analyze_entry(rec, 0).err = "none" /\ _analyze_entry(rec, 0).w
HoldsAllow(rec) == _analyze_entry(rec, 0).err = "none" /\ _analyze_entry(rec, 0).a

\* the greatest element of a set of positions, -1 for none
Greatest(S) == IF S = {} THEN -1 ELSE CHOOSE i \in S : \A j \in S : j <= i

LastWritePos(T) ==
    Greatest({i \in 0..(Len(Decoded(T)) - 1) : HoldsWrite(Decoded(T)[i + 1].val)})
LastAllowPos(T) ==
    Greatest({i \in 0..(Len(Decoded(T)) - 1) : HoldsAllow(Decoded(T)[i + 1].val)})

\* the outcomes of the process
Allowed == pc = "done" /\ exit_code = 0 /\ stdout = <<>>
Blocked == pc = "done" /\ exit_code = 0 /\ Len(stdout) = 1
Crashed == pc = "done" /\ exit_code # 0

\* no read of the transcript fails: the stream is consumed to its end
ReadsSucceed == fs_file # "failing"

\* an invocation record whose guard does not fire has run to its exit, no
\* read of the transcript having failed
RanUnguarded ==
    pc = "done" /\ IsInvocation(stdin) /\ ~ReentrySignalled(stdin.val) /\ ReadsSucceed

(***************************************************************************)
(* C1.  When the loop guard does not fire, the hook blocks exactly when    *)
(* the transcript holds a qualifying write whose last position is greater  *)
(* than the last position of a verification success, and allows otherwise. *)
(***************************************************************************)
C1_BlockIffUnverifiedWrite ==
    RanUnguarded =>
        IF LastWritePos(transcript) >= 0
           /\ LastWritePos(transcript) > LastAllowPos(transcript)
        THEN Blocked
        ELSE Allowed

\* the line is a record holding a qualifying write and no verification success
WriteOnly(line) == line.kind = "json" /\ _analyze_entry(line.val, 0) = Ret(TRUE, FALSE)

(***************************************************************************)
(* C2.  Appending records that each hold a qualifying write and no         *)
(* verification success to a transcript T whose walk yields a pair never   *)
(* turns hasUnverifiedWrites from true to false, and the walk of the       *)
(* longer transcript yields true as soon as one such record is appended:   *)
(* an earlier verification success does not cover a later write.           *)
(***************************************************************************)
C2_AppendMonotone ==
    RanUnguarded =>
        \A k \in 0..(Len(transcript) - 1) :
            LET T == SubSeq(transcript, 1, k)
                R == SubSeq(transcript, k + 1, Len(transcript))
            IN (Walk(T).returned /\ \A i \in 1..Len(R) : WriteOnly(R[i])) =>
                   /\ result.returned
                   /\ result.has_unverified_writes
                   /\ Walk(transcript) = result

C2_Witness ==
    /\ RanUnguarded
    /\ transcript = <<JsonLine(WriteApp), JsonLine(ScanAllow), JsonLine(WriteApp)>>
    /\ ~Walk(SubSeq(transcript, 1, 2)).has_unverified_writes
    /\ result.has_unverified_writes

(***************************************************************************)
(* C3.  When the invocation record sets stop_hook_active, or its           *)
(* loop_count is 3 or more, the hook allows whatever the transcript holds, *)
(* and never starts the analysis of the transcript.                        *)
(***************************************************************************)
C3_LoopGuardAllows ==
    (IsInvocation(stdin) /\ ReentrySignalled(stdin.val)) =>
        /\ pc \in {"read_input", "detect", "guard", "done"}
        /\ ~result.returned /\ cursor = 0
        /\ pc = "done" => Allowed /\ error = "none"

C3_Witness ==
    /\ pc = "done"
    /\ IsInvocation(stdin)
    /\ Get(stdin.val, "loop_count", JNull) = JNum(3)
    /\ ~HasKey(stdin.val, "stop_hook_active")
    /\ transcript = <<JsonLine(WriteApp)>>

(***************************************************************************)
(* C4.  Whatever records the transcript holds, the walker ends with a pair *)
(* of booleans and the process ends in allow or block with exit status 0.  *)
(***************************************************************************)
C4_NoTranscriptCrashes ==
    RanUnguarded => /\ ~Crashed /\ error = "none"
                    /\ result.returned
                    /\ Allowed \/ Blocked

(***************************************************************************)
(* C6.  Every path exits 0 with at most one output record: none on allow,  *)
(* on block {"decision": "block", "reason": message} in environment A and  *)
(* {"followup_message": message} in environment B; whether the hook blocks *)
(* is decided by the guard fields and the transcript, not the environment. *)
(***************************************************************************)
C6_OutputProtocol ==
    (IsInvocation(stdin) /\ ReadsSucceed) =>
        /\ pc # "done" => stdout = <<>>
        /\ pc = "done" =>
            /\ exit_code = 0
            /\ Len(stdout) <= 1
            /\ stdout # <<>> =>
                stdout[1] = IF EnvironmentB(stdin.val)
                            THEN JDict(<< <<"followup_message", JStr(MESSAGE)>> >>)
                            ELSE JDict(<< <<"decision", JStr("block")>>,
                                          <<"reason", JStr(MESSAGE)>> >>)
            /\ (stdout # <<>>) = (/\ ~ReentrySignalled(stdin.val)
                                  /\ LastWritePos(transcript) > LastAllowPos(transcript))

(***************************************************************************)
(* C7.  The pair the walker returns, the stream consumed to its end, is    *)
(* hasUnverifiedWrites = (lastWritePos > lastAllowPos) and                 *)
(* hasSecurityWrites = (lastWritePos is set), the positions being the last *)
(* positions, over the decoded records, of a qualifying write and of a     *)
(* verification success, -1 when there is none.                            *)
(***************************************************************************)
C7_OrderingInvariant ==
    (result.returned /\ ReadsSucceed) =>
        /\ result.has_unverified_writes
             = (LastWritePos(transcript) > LastAllowPos(transcript))
        /\ result.has_security_writes = (LastWritePos(transcript) >= 0)

C7_Witness ==
    /\ result.returned
    /\ ReadsSucceed
    /\ LastAllowPos(transcript) >= 0
    /\ LastWritePos(transcript) > LastAllowPos(transcript)
    /\ Len(Decoded(transcript)) < Len(transcript)

\* the position, among the decoded records, of line i of the transcript
PosOf(i) == Len(Decoded(SubSeq(transcript, 1, i))) - 1

PayloadKeys == {"content", "result", "tool_result"}

RECURSIVE AllowInPayload(_)
\* ALLOW occurs in the value of a payload field of the record, at any level
AllowInPayload(x) ==
    IF IsDict(x)
    THEN \E j \in 1..Len(x.v) :
            \/ x.v[j][1] \in PayloadKeys /\ Contains(PyRepr(x.v[j][2]), "ALLOW")
            \/ AllowInPayload(x.v[j][2])
    ELSE IF IsList(x) THEN \E j \in 1..Len(x.v) : AllowInPayload(x.v[j])
    ELSE FALSE

\* a record of the scan tool: scan_code in its name or its tool_name
IsScanRecord(x) ==
    /\ IsDict(x)
    /\ \E k \in {"name", "tool_name"} :
           /\ HasKey(x, k)
           /\ IsStr(Get(x, k, JNull))
           /\ Contains(Get(x, k, JNull).v, "scan_code")

(***************************************************************************)
(* C5.  A verification-tool record is a verification success only when its *)
(* payload contains ALLOW: the last-verification position never points at  *)
(* a record whose payload lacks ALLOW, and a transcript of a qualifying    *)
(* write followed only by scan results without ALLOW blocks.               *)
(***************************************************************************)
C5_OnlyAllowVerifies ==
    /\ \A i \in 1..cursor :
           (transcript[i].kind = "json" /\ last_scan_allow_idx = PosOf(i)) =>
               AllowInPayload(transcript[i].val)
    /\ (/\ RanUnguarded
        /\ Len(transcript) >= 2
        /\ WriteOnly(transcript[1])
        /\ \A i \in 2..Len(transcript) :
               /\ transcript[i].kind = "json"
               /\ IsScanRecord(transcript[i].val)
               /\ ~AllowInPayload(transcript[i].val))
       => Blocked

C5_Witness ==
    /\ RanUnguarded
    /\ transcript = <<JsonLine(WriteApp), JsonLine(ScanBlock)>>
    /\ last_scan_allow_idx = -1
    /\ Blocked

ClaimedVerification(x) ==
    /\ IsScanRecord(x)
    /\ \E k \in PayloadKeys :
           HasKey(x, k) /\ Contains(PyStr(Get(x, k, JNull)), "ALLOW")

(***************************************************************************)
(* C8.  As claimed: a record whose name or tool_name contains scan_code    *)
(* and whose content, result or tool_result contains ALLOW is a qualifying *)
(* verification, whichever field names the tool.                           *)
(***************************************************************************)
C8_AnyNameAnyPayload ==
    \A i \in 1..cursor :
        (transcript[i].kind = "json" /\ ClaimedVerification(transcript[i].val)) =>
            last_scan_allow_idx >= PosOf(i)

TextHasAllow(x) == IsStr(x) /\ Contains(x.v, "ALLOW")

NameStrategy(x) ==
    /\ IsDict(x)
    /\ Get(x, "type", JNull) = JStr("tool_result")
    /\ IsStr(Get(x, "name", JNull))
    /\ Contains(Get(x, "name", JNull).v, "scan_code")
    /\ \/ TextHasAllow(Get(x, "content", JNull))
       \/ /\ IsList(Get(x, "content", JNull))
          /\ \E j \in 1..Len(Get(x, "content", JNull).v) :
                 /\ IsDict(Get(x, "content", JNull).v[j])
                 /\ TextHasAllow(Get(Get(x, "content", JNull).v[j], "text", JNull))

ToolNameStrategy(x) ==
    /\ IsDict(x)
    /\ IsStr(Get(x, "tool_name", JNull))
    /\ Contains(Get(x, "tool_name", JNull).v, "scan_code")
    /\ LET res == IF HasKey(x, "result") THEN Get(x, "result", JNull)
                  ELSE Get(x, "tool_result", JNull)
       IN \/ TextHasAllow(res)
          \/ IsDict(res) /\ TextHasAllow(Get(res, "decision", JNull))

(***************************************************************************)
(* C8, amended.  Each strategy accepts namespaced tool identifiers, with   *)
(* its own record shape: type tool_result, scan_code within name, ALLOW in *)
(* content (a string, or the text of a mapping item of a list); or         *)
(* scan_code within tool_name, ALLOW in result, or in tool_result when     *)
(* there is no result (a string, or the decision of a mapping).  A record  *)
(* of either shape is never classified as no verification, and a record of *)
(* the scan tool of neither shape is never classified as one.              *)
(***************************************************************************)
C8_EachStrategyItsShape ==
    \A i \in 1..cursor :
        LET x == transcript[i].val
        IN /\ (transcript[i].kind = "json" /\ (NameStrategy(x) \/ ToolNameStrategy(x))) =>
                  last_scan_allow_idx >= PosOf(i)
           /\ (x \in ScanRecords /\ last_scan_allow_idx = PosOf(i)) =>
                  NameStrategy(x) \/ ToolNameStrategy(x)

C8_Witness ==
    /\ cursor = 1
    /\ transcript[1].val =
           JDict(<< <<"tool_name", JStr("mcp__acutis__scan_code")>>,
                    <<"result", JStr("Decision: ALLOW")>> >>)
    /\ last_scan_allow_idx = 0

Relevant(path) ==
    /\ Lower(PathSuffix(path)) \in SECURITY_EXTENSIONS
    /\ \A j \in 1..Len(PathParts(path)) : PathParts(path)[j] \notin SKIP_PATTERNS

IsWriteLine(line) ==
    line.kind = "json" /\ IsDict(line.val) /\ Get(line.val, "type", JNull) = JStr("tool_use")

TargetOf(line) == Get(Get(line.val, "input", JDict(<<>>)), "file_path", JStr("")).v

(***************************************************************************)
(* C9.  A written path is security-relevant exactly when its extension,    *)
(* lower-cased, is in the extension set and none of its segments is in the *)
(* exclusion set; a transcript whose writes all target paths that are not  *)
(* relevant is allowed, with or without a verification record.             *)
(***************************************************************************)
C9_RelevantPaths ==
    /\ (cursor >= 1 /\ IsWriteLine(transcript[cursor])) =>
           ((last_security_write_idx = PosOf(cursor))
                <=> Relevant(TargetOf(transcript[cursor])))
    /\ (/\ RanUnguarded
        /\ \A i \in 1..Len(transcript) :
               IsWriteLine(transcript[i]) => ~Relevant(TargetOf(transcript[i])))
       => Allowed

C9_Witness ==
    /\ RanUnguarded
    /\ transcript = <<JsonLine(ToolUse("Write", FilePath("node_modules/pkg/app.py")))>>
    /\ Allowed

BeyondCeiling(line) ==
    \E leaf \in NestLeaves, kind \in NestKinds, n \in (MaxDepth + 1)..(MaxDepth + NestBeyond) :
        line = JsonLine(Nest(leaf, n, kind))

(***************************************************************************)
(* C10.  A qualifying write or verification lying deeper than the depth    *)
(* ceiling of 10 contributes nothing to the result of its record, and the  *)
(* classification of such a record ends without an error.                  *)
(***************************************************************************)
C10_DepthSafety ==
    /\ \A i \in 1..cursor :
           BeyondCeiling(transcript[i]) =>
               /\ last_security_write_idx # PosOf(i)
               /\ last_scan_allow_idx # PosOf(i)
    /\ Crashed => ~BeyondCeiling(transcript[cursor + 1])

C10_Witness ==
    /\ RanUnguarded
    /\ transcript = <<JsonLine(Nest(WriteApp, MaxDepth + 1, "list"))>>
    /\ Allowed

(***************************************************************************)
(* C11.  As claimed: standard input that is empty, or that does not decode *)
(* to a keyed mapping, is treated as the empty record: environment A, no   *)
(* transcript read, allow with no output and exit status 0.                *)
(***************************************************************************)
C11_MalformedInputAllows ==
    ~IsInvocation(stdin) =>
        /\ pc # "read_input" => hook_input = JDict(<<>>)
        /\ env \in {"unset", "claude"}
        /\ pc # "walk" /\ cursor = 0
        /\ pc = "done" => Allowed /\ error = "none"

\* the invocation record leaves the walker no file to read: no path, an empty
\* path, no regular file at the path, or a file open() refuses
NoFileToRead ==
    /\ IsInvocation(stdin)
    /\ ~ReentrySignalled(stdin.val)
    /\ ~NamesTranscript(stdin) \/ fs_file \in {"absent", "unreadable"}

(***************************************************************************)
(* C12.  When the transcript path is empty or absent, or names no readable *)
(* regular file, the walker reads no line and returns (false, false), and  *)
(* the hook allows with no output.                                         *)
(***************************************************************************)
C12_NoTranscriptFileAllows ==
    NoFileToRead =>
        /\ pc # "walk" /\ cursor = 0
        /\ pc \in {"decide", "done"} =>
               result = [returned |-> TRUE, has_unverified_writes |-> FALSE,
                         has_security_writes |-> FALSE]
        /\ pc = "done" => Allowed /\ error = "none"

C12_Witness ==
    /\ NoFileToRead
    /\ NamesTranscript(stdin)
    /\ fs_file = "unreadable"
    /\ ~HasKey(stdin.val, "stop_hook_active")
    /\ pc = "done"
    /\ result.returned
    /\ Allowed

PathFields == {"file_path", "filePath"}

\* the path fields the input of a write tool has are strings, and one of them
\* carries a non-empty, security-relevant path
CarriesRelevantPath(tool_input) ==
    /\ IsDict(tool_input)
    /\ \A k \in PathFields : HasKey(tool_input, k) => IsStr(Get(tool_input, k, JNull))
    /\ \E k \in PathFields :
           /\ HasKey(tool_input, k)
           /\ Get(tool_input, k, JNull).v # ""
           /\ Relevant(Get(tool_input, k, JNull).v)

\* a write-tool record, in either of its two shapes, named exactly
ExactWriteRecord(x) ==
    /\ IsDict(x)
    /\ \/ /\ Get(x, "type", JNull) = JStr("tool_use")
          /\ InWriteTools(Get(x, "name", JNull))
          /\ CarriesRelevantPath(Get(x, "input", Get(x, "tool_input", JNull)))
       \/ /\ InWriteTools(Get(x, "tool_name", JNull))
          /\ CarriesRelevantPath(Get(x, "tool_input", JNull))

\* a record whose name holds a write-tool name within a longer name
SubstringNamed(x) ==
    /\ IsDict(x)
    /\ \A k \in {"name", "tool_name"} : ~InWriteTools(Get(x, k, JNull))
    /\ \E k \in {"name", "tool_name"}, w \in WRITE_TOOLS :
           /\ IsStr(Get(x, k, JNull))
           /\ Contains(Get(x, k, JNull).v, w)

(***************************************************************************)
(* C14.  As claimed: a write-tool record whose name equals a write-tool    *)
(* name is a qualifying write whenever file_path or filePath carries a     *)
(* non-empty security-relevant path, the other spelling being absent or    *)
(* present, empty or not; a record whose name only contains a write-tool   *)
(* name is never one.                                                      *)
(***************************************************************************)
C14_ExactNameEitherPathField ==
    (pc = "walk" /\ cursor >= 1 /\ transcript[cursor].kind = "json") =>
        /\ ExactWriteRecord(transcript[cursor].val) =>
               last_security_write_idx = PosOf(cursor)
        /\ SubstringNamed(transcript[cursor].val) =>
               last_security_write_idx # PosOf(cursor)

(***************************************************************************)
(* C15.  Blank lines and lines that do not decode take no position: idx is *)
(* the number of records decoded so far, the two positions are the last    *)
(* positions among the decoded records, and the walk of a transcript gives *)
(* what the walk of its decoded lines alone gives.                         *)
(***************************************************************************)
C15_SkippedLinesTakeNoPosition ==
    /\ idx = Len(Decoded(SubSeq(transcript, 1, cursor)))
    /\ last_security_write_idx = LastWritePos(SubSeq(transcript, 1, cursor))
    /\ last_scan_allow_idx = LastAllowPos(SubSeq(transcript, 1, cursor))
    /\ Walk(transcript) = Walk(Decoded(transcript))
    /\ (result.returned /\ ReadsSucceed) => result = Walk(Decoded(transcript))

C15_Witness ==
    /\ pc = "done"
    /\ fs_file = "readable"
    /\ transcript = <<BadLine, JsonLine(WriteApp)>>
    /\ idx = 1
    /\ last_security_write_idx = 0
    /\ Blocked

(***************************************************************************)
(* C16.  As claimed: an invocation record that has the stop_hook_active    *)
(* key, set to false, is treated as Claude Code's whatever other keys it   *)
(* carries, and a block for it is {"decision": "block", "reason": ...}.    *)
(***************************************************************************)
C16_ReentryKeyMeansClaudeCode ==
    (/\ IsInvocation(stdin)
     /\ Get(stdin.val, "stop_hook_active", JNull) = JBool(FALSE)
     /\ ~ReentrySignalled(stdin.val)) =>
        /\ env \in {"unset", "claude"}
        /\ Blocked => stdout[1] = JDict(<< <<"decision", JStr("block")>>,
                                           <<"reason", JStr(MESSAGE)>> >>)

\* the values _analyze_entry descends to from x: those of the three keys
\* that are mappings or sequences, and the elements of a sequence
Children(x) ==
    IF IsDict(x)
    THEN {x.v[j][2] : j \in {k \in 1..Len(x.v) :
                                /\ x.v[k][1] \in {"content", "messages", "message"}
                                /\ x.v[k][2].t \in {"dict", "list"}}}
    ELSE IF IsList(x) THEN {x.v[j] : j \in 1..Len(x.v)}
    ELSE {}

RECURSIVE Reached(_, _)
\* x and everything reached from it, down to the depth ceiling
Reached(x, depth) ==
    IF depth > MaxDepth THEN {}
    ELSE {x} \cup UNION {Reached(c, depth + 1) : c \in Children(x)}

\* the matches of a record at its own level
LocalWrite(x) == IsDict(x) /\ (ToolUseWrite(x).w \/ ToolNameWrite(x).w)
LocalAllow(x) == IsDict(x) /\ (ScanResultAllow(x) \/ ScanToolAllow(x))

\* a qualifying write / verification success at or under the record
WriteWithin(x) == \E n \in Reached(x, 0) : LocalWrite(n)
AllowWithin(x) == \E n \in Reached(x, 0) : LocalAllow(n)

(***************************************************************************)
(* C17.  The classification of a record is, for the write signal and for   *)
(* the verification signal each, the OR of the local matches of the record *)
(* and of everything reached from it, within the depth ceiling, through    *)
(* the keys content, messages and message and the elements of sequences;   *)
(* an event under any other key contributes nothing.                       *)
(***************************************************************************)
C17_OrOverDescendants ==
    (pc = "walk" /\ cursor >= 1 /\ transcript[cursor].kind = "json") =>
        /\ (last_security_write_idx = PosOf(cursor)) = WriteWithin(transcript[cursor].val)
        /\ (last_scan_allow_idx = PosOf(cursor)) = AllowWithin(transcript[cursor].val)

C17_Witness ==
    /\ pc = "walk"
    /\ cursor = 2
    /\ transcript = <<JsonLine(WriteApp), JsonLine(ScanThenWrite)>>
    /\ last_security_write_idx = 1
    /\ last_scan_allow_idx = 1

(***************************************************************************)
(* C18.  During the walk the two positions start unset and never decrease  *)
(* from one processed record to the next, and each is unset or the         *)
(* position of a record already processed, never one ahead of the walk.    *)
(***************************************************************************)
C18_PositionsMonotone ==
    [][/\ (pc = "analyze" /\ pc' = "walk") =>
              /\ last_security_write_idx' = -1
              /\ last_scan_allow_idx' = -1
       /\ pc = "walk" =>
              /\ last_security_write_idx' >= last_security_write_idx
              /\ last_scan_allow_idx' >= last_scan_allow_idx
              /\ last_security_write_idx' \in -1..(idx' - 1)
              /\ last_scan_allow_idx' \in -1..(idx' - 1)]_vars

C18_Witness ==
    /\ pc = "walk"
    /\ cursor = 2
    /\ last_scan_allow_idx = 0
    /\ last_security_write_idx = 1

(***************************************************************************)
(* C19.  When a read fails after k lines, the process does not fail on it: *)
(* the walker returns the pair the walk of those first k lines gives, and  *)
(* the hook blocks or allows by that pair, with exit status 0.             *)
(***************************************************************************)
C19_PartialWalkOnReadFailure ==
    /\ error \notin {"OSError", "PermissionError"}
    /\ (fs_file = "failing" /\ result.returned /\ NamesTranscript(stdin)) =>
           /\ result = Walk(SubSeq(transcript, 1, cursor))
           /\ pc = "done" =>
                  /\ exit_code = 0
                  /\ IF result.has_security_writes /\ result.has_unverified_writes
                     THEN Blocked ELSE Allowed

C19_Witness ==
    /\ pc = "done"
    /\ fs_file = "failing"
    /\ transcript = <<JsonLine(WriteApp), JsonLine(ScanAllow)>>
    /\ cursor = 1
    /\ Blocked

(***************************************************************************)
(* C20.  A record holding both a qualifying write and a verification       *)
(* success, at any nesting and in either order within it, sets both        *)
(* positions to its own; when it is the last record holding a write, the   *)
(* transcript counts as verified and the hook allows.                      *)
(***************************************************************************)
C20_SameRecordCountsAsVerified ==
    /\ (/\ pc = "walk"
        /\ cursor >= 1
        /\ transcript[cursor].kind = "json"
        /\ WriteWithin(transcript[cursor].val)
        /\ AllowWithin(transcript[cursor].val)) =>
           /\ last_security_write_idx = PosOf(cursor)
           /\ last_scan_allow_idx = PosOf(cursor)
    /\ (/\ RanUnguarded
        /\ result.returned
        /\ LastWritePos(transcript) >= 0
        /\ AllowWithin(Decoded(transcript)[LastWritePos(transcript) + 1].val)) =>
           /\ ~result.has_unverified_writes
           /\ Allowed

C20_Witness ==
    /\ RanUnguarded
    /\ transcript = <<JsonLine(WriteApp), JsonLine(WriteThenScan)>>
    /\ last_security_write_idx = 1
    /\ last_scan_allow_idx = 1
    /\ Allowed

====
